---------------------------- MODULE Spec2Model ----------------------------
(***************************************************************************)
(* A model of ocrpdf: the page-layout and layer-compositing engine         *)
(* (Document.GetPageConfiguration, Document.AddWords,                      *)
(* Document.AddImageLayer, Document.AddPage), the image format resolution  *)
(* (Image.Reader) and the page pipeline of main.                           *)
(*                                                                         *)
(* float64 values are modelled as exact rationals <<n, d>> in lowest terms *)
(* with d > 0; a division by zero yields <<1,0>>, <<-1,0>> or <<0,0>>      *)
(* (+Inf, -Inf, NaN), as Go's float64 division does.  Equalities between   *)
(* computed values are therefore equalities of the exact results; the      *)
(* program's float64 results agree with them up to rounding.               *)
(*                                                                         *)
(* The document writer (gofpdf.Fpdf) is modelled as a recorder: every call *)
(* the code makes on it is appended to pdf.ops together with the graphics  *)
(* state in force at the call (open layer, current transformation, alpha,  *)
(* blend mode, transform nesting depth).                                   *)
(***************************************************************************)
EXTENDS Integers, Sequences, FiniteSets, TLC

VARIABLES
    doc,      \* the Document: debug, orientation, textScaling, page size, font
    pdf,      \* the embedded gofpdf.Fpdf writer state
    call,     \* the last call made on the Document: its inputs and results
    main,     \* the command: its flags, its locals, where it is, its exit code
    env       \* what the command acts on: the output file, the events so far

vars == <<doc, pdf, call, main, env>>

-----------------------------------------------------------------------------
(* float64 arithmetic, as exact rationals *)

Abs(n) == IF n < 0 THEN -n ELSE n

Sign(n) == IF n < 0 THEN -1 ELSE IF n > 0 THEN 1 ELSE 0

RECURSIVE GCD(_, _)
GCD(a, b) == IF b = 0 THEN a ELSE GCD(b, a % b)

Norm(n, d) ==
    IF d = 0 THEN <<Sign(n), 0>>
    ELSE LET g == GCD(Abs(n), Abs(d))
             s == Sign(d)
         IN  <<(s * n) \div g, (s * d) \div g>>

R(n) == <<n, 1>>

Finite(a) == a[2] # 0

Mul(a, b) == Norm(a[1] * b[1], a[2] * b[2])

Div(a, b) == Norm(a[1] * b[2] * Sign(b[1]), a[2] * Abs(b[1]))

Add(a, b) == Norm(a[1] * b[2] + b[1] * a[2], a[2] * b[2])

Sub(a, b) == Norm(a[1] * b[2] - b[1] * a[2], a[2] * b[2])

Lt(a, b) == Finite(a) /\ Finite(b) /\ a[1] * b[2] < b[1] * a[2]

Gt(a, b) == Lt(b, a)

Le(a, b) == Finite(a) /\ Finite(b) /\ a[1] * b[2] <= b[1] * a[2]

IsZero(a) == Finite(a) /\ a[1] = 0

-----------------------------------------------------------------------------
(* Orientation and TextScaling constants *)

AutoOrientation == "auto"
PortraitOrientation == "portrait"
LandscapeOrientation == "landscape"
Orientations == {AutoOrientation, PortraitOrientation, LandscapeOrientation}

NoTextScaling == "off"
ContainTextScaling == "contain"
MatchTextScaling == "match"
TextScalings == {NoTextScaling, ContainTextScaling, MatchTextScaling}

(* the named paper sizes, in mm *)
paperSizes ==
    [a4 |-> <<210, 297>>, a5 |-> <<105, 149>>, legal |-> <<216, 356>>]

SizeNames == {"a4", "a5", "legal"}

-----------------------------------------------------------------------------
(* bounds *)

MaxDim == 4         \* image widths and heights are 1..MaxDim pixels
MaxOff == 1         \* a word's Left and Top are 0..MaxOff (direct AddWords calls)
MaxExt == 3         \* a word's Width and Height are 1..MaxExt (direct AddWords calls)
MaxText == 2        \* a word's text has 0..MaxText characters
MaxFont == 2        \* the font's line height is 1..MaxFont page units
MaxPageDim == 2     \* the images given to AddPage are 1..MaxPageDim pixels wide and high
MaxWords == 2       \* a page has 1..MaxWords words

Dims == 1..MaxDim

(* the image shapes offered to the geometry resolver: every small shape,   *)
(* the 2000x1000 scan of the worked example, and an A4 sheet scanned at    *)
(* 10 pixels per mm                                                        *)
Shapes == (Dims \X Dims) \cup {<<2000, 1000>>, <<2100, 2970>>}

(* a text is a sequence of characters *)
TextOfLen(n) == [i \in 1..n |-> "x"]

Texts == {TextOfLen(n) : n \in 0..MaxText}

FontSizes == 1..MaxFont

-----------------------------------------------------------------------------
(* Document.GetPageConfiguration *)

GetPageSize(d) == <<R(paperSizes[d.size][1]), R(paperSizes[d.size][2])>>

(* mutants of Swap: landscape also for a square image; orientation ignored *)
SwapOnSquare(d, iw, ih) == d.orientation = AutoOrientation /\ ~ Lt(iw, ih)

SwapAlways(d, iw, ih) == Gt(iw, ih)

(* the auto branch swaps the base width and height *)
Swap(d, iw, ih) == d.orientation = AutoOrientation /\ Gt(iw, ih)

(* mutants of Fit: the comparison inverted; both axes recomputed *)
FitInverted(iw, ih, w, h) ==
    IF Gt(Mul(iw, h), Mul(ih, w))
    THEN <<Div(Mul(h, iw), ih), h>>
    ELSE <<w, Div(Mul(w, ih), iw)>>

FitHalved(iw, ih, w, h) ==
    IF Lt(Mul(iw, h), Mul(ih, w))
    THEN <<Div(Mul(h, iw), Mul(R(2), ih)), Div(h, R(2))>>
    ELSE <<w, Div(Mul(w, ih), iw)>>

(* the fit step: shrink one axis of the box (w, h) to the image's shape *)
Fit(iw, ih, w, h) ==
    IF Lt(Mul(iw, h), Mul(ih, w))
    THEN <<Div(Mul(h, iw), ih), h>>
    ELSE <<w, Div(Mul(w, ih), iw)>>

(* (w, h, orientation); pw, ph are the locals w, h after the orientation   *)
(* step and before the fit                                                 *)
GetPageConfiguration(d, iw, ih) ==
    LET base == GetPageSize(d)
        swap == Swap(d, iw, ih)
        pw == IF swap THEN base[2] ELSE base[1]
        ph == IF swap THEN base[1] ELSE base[2]
        orientation ==
            IF d.orientation = AutoOrientation
            THEN IF swap THEN LandscapeOrientation ELSE PortraitOrientation
            ELSE d.orientation
        fit == Fit(iw, ih, pw, ph)
    IN  [w |-> fit[1], h |-> fit[2], orientation |-> orientation,
         pw |-> pw, ph |-> ph, swapped |-> swap]

-----------------------------------------------------------------------------
(* gofpdf.Fpdf, the document writer *)

Z == R(0)

Identity == [a |-> R(1), d |-> R(1), e |-> R(0), f |-> R(0)]

NewPdf ==
    [ops |-> <<>>, layer |-> "", ctm |-> Identity, saved |-> <<>>,
     alpha |-> <<1, 1>>, blend |-> "Normal", x |-> R(0), y |-> R(0),
     err |-> FALSE, page |-> 0, images |-> {}]

(* a call on the writer with its arguments *)
Cmd(op, id, txt, x, y, w, h) ==
    [op |-> op, id |-> id, txt |-> txt, x |-> x, y |-> y, w |-> w, h |-> h]

BeginLayer(id) == Cmd("BeginLayer", id, <<>>, Z, Z, Z, Z)

EndLayer == Cmd("EndLayer", "", <<>>, Z, Z, Z, Z)

TransformBegin == Cmd("TransformBegin", "", <<>>, Z, Z, Z, Z)

(* scale by scaleWd, scaleHt percent about (x, y) *)
TransformScale(scaleWd, scaleHt, x, y) ==
    Cmd("TransformScale", "", <<>>, x, y, scaleWd, scaleHt)

TransformEnd == Cmd("TransformEnd", "", <<>>, Z, Z, Z, Z)

SetXY(x, y) == Cmd("SetXY", "", <<>>, x, y, Z, Z)

SetDrawColor == Cmd("SetDrawColor", "", <<>>, Z, Z, Z, Z)

SetFillColor == Cmd("SetFillColor", "", <<>>, Z, Z, Z, Z)

Rect(x, y, w, h, styleStr) == Cmd("Rect", styleStr, <<>>, x, y, w, h)

SetAlpha(alpha, blendModeStr) == Cmd("SetAlpha", blendModeStr, <<>>, alpha, Z, Z, Z)

(* a text cell of size (w, h) at the cursor *)
Cell(w, h, txt) == Cmd("Cell", "", txt, Z, Z, w, h)

(* flowing text of line height h at the cursor *)
Write(h, txt) == Cmd("Write", "", txt, Z, Z, Z, h)

RegisterImageReader(imgName, tp) ==
    Cmd("RegisterImageReader", imgName, <<tp>>, Z, Z, Z, Z)

Image(imgName, x, y, w, h, tp) == Cmd("Image", imgName, <<tp>>, x, y, w, h)

AddPageFormat(orientationStr, w, h) ==
    Cmd("AddPageFormat", orientationStr, <<>>, Z, Z, w, h)

SetError == Cmd("SetError", "", <<>>, Z, Z, Z, Z)

(* the call as it is recorded: with the graphics state in force when it is *)
(* made; a text draw is recorded at the cursor                             *)
Snap(p, c) ==
    [op |-> c.op, id |-> c.id, txt |-> c.txt,
     x |-> IF c.op \in {"Cell", "Write"} THEN p.x ELSE c.x,
     y |-> IF c.op \in {"Cell", "Write"} THEN p.y ELSE c.y,
     w |-> c.w, h |-> c.h,
     layer |-> p.layer, ctm |-> p.ctm, alpha |-> p.alpha, blend |-> p.blend,
     nest |-> Len(p.saved)]

(* the current transformation after a scale by (sx, sy) about (x, y) *)
Scaled(ctm, sx, sy, x, y) ==
    [a |-> Mul(ctm.a, sx),
     d |-> Mul(ctm.d, sy),
     e |-> Add(Mul(ctm.a, Mul(x, Sub(R(1), sx))), ctm.e),
     f |-> Add(Mul(ctm.d, Mul(y, Sub(R(1), sy))), ctm.f)]

(* the writer after one call: the call is recorded and takes effect; a new *)
(* page restarts the record                                                *)
Step(p, c) ==
    LET q == [p EXCEPT !.ops = Append(@, Snap(p, c))]
    IN  CASE c.op = "BeginLayer" -> [q EXCEPT !.layer = c.id]
          [] c.op = "EndLayer" -> [q EXCEPT !.layer = ""]
          [] c.op = "TransformBegin" -> [q EXCEPT !.saved = Append(@, p.ctm)]
          [] c.op = "TransformScale" ->
                [q EXCEPT !.ctm = Scaled(p.ctm, Div(c.w, R(100)), Div(c.h, R(100)),
                                         c.x, c.y)]
          [] c.op = "TransformEnd" ->
                IF p.saved = <<>> THEN q
                ELSE [q EXCEPT !.ctm = p.saved[Len(p.saved)],
                               !.saved = SubSeq(p.saved, 1, Len(p.saved) - 1)]
          [] c.op = "SetXY" -> [q EXCEPT !.x = c.x, !.y = c.y]
          [] c.op = "SetAlpha" -> [q EXCEPT !.alpha = c.x, !.blend = c.id]
          [] c.op = "Cell" -> [q EXCEPT !.x = Add(p.x, c.w)]
          [] c.op = "RegisterImageReader" -> [q EXCEPT !.images = @ \cup {c.id}]
          [] c.op = "AddPageFormat" ->
                [q EXCEPT !.ops = <<Snap(p, c)>>, !.page = @ + 1]
          [] c.op = "SetError" -> [q EXCEPT !.err = TRUE]
          [] OTHER -> q

(* the writer after the calls cmds[i], cmds[i+1], ... in this order; the   *)
(* writer state is evaluated once a call                                   *)
RECURSIVE Run(_, _, _)
Run(p, cmds, i) ==
    IF i > Len(cmds) THEN p
    ELSE CHOOSE r \in {Run(Step(q, cmds[i]), cmds, i + 1) : q \in {p}} : TRUE

(* the width of txt in the current font: half the line height a character *)
GetStringWidth(d, txt) == Div(Mul(R(Len(txt)), R(d.fontSize)), R(2))

(* the line height of the current font, in page units *)
GetFontSize(d) == R(d.fontSize)

-----------------------------------------------------------------------------
(* Image *)

(* Image.Dimensions: the width and height of the pixel buffer *)
Dimensions(image) == <<image.w, image.h>>

(* Image.Reader: the error, the format tag returned with the buffer and    *)
(* the encoding of the bytes in the buffer ("" when there is no buffer)    *)
Reader(image, format) ==
    LET pixFormat == IF format = "auto" THEN "png" ELSE image.pixFormat
    IN  CASE pixFormat = "png" -> [err |-> FALSE, format |-> "png", encoding |-> "png"]
          [] pixFormat = "jpg" -> [err |-> FALSE, format |-> "jpg", encoding |-> "jpg"]
          [] OTHER -> [err |-> TRUE, format |-> "", encoding |-> ""]

(* Image.Reader of the revision that switches on the requested format: the *)
(* switch has no default case, so any other token keeps the native         *)
(* encoding and is returned as the tag; no path returns an error           *)
ReaderSwitch(image, format) ==
    CASE format = "png" -> [err |-> FALSE, format |-> "png", encoding |-> "png"]
      [] format = "jpg" -> [err |-> FALSE, format |-> "jpg", encoding |-> "jpg"]
      [] format = "auto" ->
            IF image.pixFormat \in {"png", "jpg"}
            THEN [err |-> FALSE, format |-> image.pixFormat,
                  encoding |-> image.pixFormat]
            ELSE [err |-> FALSE, format |-> "png", encoding |-> "png"]
      [] OTHER -> [err |-> FALSE, format |-> format, encoding |-> image.pixFormat]

(* strings.ToLower, on the format tokens *)
ToLower(token) ==
    CASE token = "PNG" -> "png"
      [] token = "JPG" -> "jpg"
      [] OTHER -> token

(* Image.Reader of the first revision: the token is looked up in a table   *)
(* of names; the caller registers the buffer under the token it asked for  *)
ReaderTable(image, format) ==
    LET table == [jpg |-> "jpg", jpeg |-> "jpg", png |-> "png"]
        key == ToLower(format)
    IN  IF format = ""
        THEN [err |-> FALSE, format |-> format, encoding |-> image.pixFormat]
        ELSE IF key \in DOMAIN table
             THEN [err |-> FALSE, format |-> format, encoding |-> table[key]]
             ELSE [err |-> TRUE, format |-> "", encoding |-> ""]

-----------------------------------------------------------------------------
(* Document: the calls each method makes on the writer, in order *)

When(b, cmds) == IF b THEN cmds ELSE <<>>

(* a Word as Tess.Words builds it *)
NewWord(text, left, top, right, bottom) ==
    [Text |-> text, Left |-> left, Top |-> top, Right |-> right,
     Bottom |-> bottom, Width |-> right - left, Height |-> bottom - top]

(* mutant of ContainScale: the comparison inverted *)
ContainScaleInverted(w, h, sw, sh) ==
    IF Lt(Mul(sw, h), Mul(sh, w))
    THEN [sx |-> Div(w, sw), sy |-> Div(w, sw)]
    ELSE [sx |-> Div(h, sh), sy |-> Div(h, sh)]

(* text expands linearly until contained by the word boundary *)
ContainScale(w, h, sw, sh) ==
    IF Gt(Mul(sw, h), Mul(sh, w))
    THEN [sx |-> Div(w, sw), sy |-> Div(w, sw)]
    ELSE [sx |-> Div(h, sh), sy |-> Div(h, sh)]

(* mutant of MatchScale: the horizontal factor used for both axes *)
MatchScaleUniform(w, h, sw, sh) == [sx |-> Div(w, sw), sy |-> Div(w, sw)]

(* text has exactly the same shape as the word boundary *)
MatchScale(w, h, sw, sh) == [sx |-> Div(w, sw), sy |-> Div(h, sh)]

(* mutant of ScaleFactors: every mode that is not contain scales as match *)
ScaleFactorsDefaultMatch(textScaling, w, h, sw0, sh) ==
    LET sw == IF IsZero(sw0) THEN w ELSE sw0
        f == IF textScaling = ContainTextScaling
             THEN ContainScale(w, h, sw, sh)
             ELSE MatchScale(w, h, sw, sh)
    IN  [sx |-> f.sx, sy |-> f.sy, sw |-> sw]

(* the switch on d.textScaling: the factors sx, sy and the width sw of the *)
(* text cell, which the contain and match cases replace by w when it is 0  *)
ScaleFactors(textScaling, w, h, sw0, sh) ==
    LET sw == IF IsZero(sw0) THEN w ELSE sw0
    IN  CASE textScaling = ContainTextScaling ->
                LET f == ContainScale(w, h, sw, sh)
                IN  [sx |-> f.sx, sy |-> f.sy, sw |-> sw]
          [] textScaling = MatchTextScaling ->
                LET f == MatchScale(w, h, sw, sh)
                IN  [sx |-> f.sx, sy |-> f.sy, sw |-> sw]
          [] OTHER ->
                [sx |-> R(1), sy |-> R(1), sw |-> sw0]

(* mutant of AddWord: the highlight's alpha and blend mode are not reset *)
AddWordNoAlphaReset(d, word, x, y, w, h, draw) ==
    LET sh == GetFontSize(d)
        sf == ScaleFactors(d.textScaling, w, h, GetStringWidth(d, word.Text), sh)
    IN  When(d.debug, <<SetDrawColor, Rect(x, y, w, h, "D")>>)
        \o <<SetXY(x, y),
             TransformBegin,
             TransformScale(Mul(R(100), sf.sx), Mul(R(100), sf.sy), x, y)>>
        \o When(d.debug, <<SetAlpha(<<1, 2>>, "Multiply"),
                           SetFillColor,
                           Rect(x, y, sf.sw, sh, "F")>>)
        \o <<IF draw = "Cell" THEN Cell(sf.sw, sh, word.Text) ELSE Write(sh, word.Text),
             TransformEnd>>

(* one iteration of the loop over the words, with the word's box (x,y,w,h) *)
(* in the coordinates of the caller; draw is "Cell" or "Write"             *)
AddWord(d, word, x, y, w, h, draw) ==
    LET sh == GetFontSize(d)
        sf == ScaleFactors(d.textScaling, w, h, GetStringWidth(d, word.Text), sh)
    IN  When(d.debug, <<SetDrawColor, Rect(x, y, w, h, "D")>>)
        \o <<SetXY(x, y),
             TransformBegin,
             TransformScale(Mul(R(100), sf.sx), Mul(R(100), sf.sy), x, y)>>
        \o When(d.debug, <<SetAlpha(<<1, 2>>, "Multiply"),
                           SetFillColor,
                           Rect(x, y, sf.sw, sh, "F"),
                           SetAlpha(<<1, 1>>, "Normal")>>)
        \o <<IF draw = "Cell" THEN Cell(sf.sw, sh, word.Text) ELSE Write(sh, word.Text),
             TransformEnd>>

RECURSIVE AddWordsFrom(_, _, _)
AddWordsFrom(d, words, i) ==
    IF i > Len(words) THEN <<>>
    ELSE LET word == words[i]
         IN  AddWord(d, word, R(word.Left), R(word.Top),
                     R(word.Width), R(word.Height), "Cell")
             \o AddWordsFrom(d, words, i + 1)

(* mutant of AddWords: the words are rendered last to first *)
AddWordsReversed(d, words) ==
    AddWordsFrom(d, [i \in 1..Len(words) |-> words[Len(words) + 1 - i]], 1)

(* Document.AddWords: the words at their pixel coordinates *)
AddWords(d, words) == AddWordsFrom(d, words, 1)

RECURSIVE addTextLayerFrom(_, _, _, _, _)
addTextLayerFrom(d, words, mx, my, i) ==
    IF i > Len(words) THEN <<>>
    ELSE LET word == words[i]
         IN  AddWord(d, word, Mul(R(word.Left), mx), Mul(R(word.Top), my),
                     Mul(R(word.Width), mx), Mul(R(word.Height), my), "Write")
             \o addTextLayerFrom(d, words, mx, my, i + 1)

(* Document.addTextLayer: the OCR layer with the words scaled by (mx, my) *)
addTextLayer(d, words, mx, my) ==
    <<BeginLayer("OCR")>> \o addTextLayerFrom(d, words, mx, my, 1) \o <<EndLayer>>

(* mutant of AddImageLayer: the deferred reset of the alpha is missing *)
AddImageLayerNoReset(d, image, imagename, format, w, h) ==
    LET r == Reader(image, format)
    IN  <<BeginLayer("Scan")>>
        \o IF r.err THEN <<SetError>>
           ELSE <<RegisterImageReader(imagename, r.format)>>
                \o When(d.debug, <<SetAlpha(<<1, 2>>, "Normal")>>)
                \o <<SetXY(Z, Z),
                     Image(imagename, Z, Z, w, h, r.format),
                     EndLayer>>

(* Document.AddImageLayer: the deferred SetAlpha runs when it returns *)
AddImageLayer(d, image, imagename, format, w, h) ==
    LET r == Reader(image, format)
    IN  <<BeginLayer("Scan")>>
        \o IF r.err THEN <<SetError>>
           ELSE <<RegisterImageReader(imagename, r.format)>>
                \o When(d.debug, <<SetAlpha(<<1, 2>>, "Normal")>>)
                \o <<SetXY(Z, Z),
                     Image(imagename, Z, Z, w, h, r.format),
                     EndLayer>>
                \o When(d.debug, <<SetAlpha(<<1, 1>>, "Normal")>>)

(* mutant of OuterScale: the factors passed as fractions, not as percent *)
OuterScaleFraction(w, h, iw, ih) == <<Div(w, iw), Div(h, ih)>>

(* mutant of OuterScale: each factor taken from the other axis of the image *)
OuterScaleCrossed(w, h, iw, ih) ==
    <<Mul(R(100), Div(w, ih)), Mul(R(100), Div(h, iw))>>

(* the percentages 100*mx, 100*my handed to the outer TransformScale *)
OuterScale(w, h, iw, ih) ==
    <<Mul(R(100), Div(w, iw)), Mul(R(100), Div(h, ih))>>

(* mutant of addWordsLayer: the outer transform is not ended *)
addWordsLayerUnscoped(d, words, w, h, iw, ih) ==
    LET m == OuterScale(w, h, iw, ih)
    IN  <<BeginLayer("OCR"), TransformBegin, TransformScale(m[1], m[2], Z, Z)>>
        \o AddWords(d, words)
        \o <<EndLayer>>

(* the closure addWordsLayer of AddPage *)
addWordsLayer(d, words, w, h, iw, ih) ==
    LET m == OuterScale(w, h, iw, ih)
    IN  <<BeginLayer("OCR"), TransformBegin, TransformScale(m[1], m[2], Z, Z)>>
        \o AddWords(d, words)
        \o <<TransformEnd, EndLayer>>

(* mutant of LayerOrder: the text layer first, whatever the mode *)
LayerOrderTextFirst(d) == <<"OCR", "Scan">>

(* the order in which AddPage composites the two layers *)
LayerOrder(d) == IF d.debug THEN <<"Scan", "OCR">> ELSE <<"OCR", "Scan">>

(* mutant of AddPage: nil is returned instead of the writer's error *)
AddPageNilError(d, p, image, imagename, words, format) ==
    LET iw == R(Dimensions(image)[1])
        ih == R(Dimensions(image)[2])
        c == GetPageConfiguration(d, iw, ih)
        Layer(l) ==
            IF l = "Scan"
            THEN AddImageLayer(d, image, imagename, format, c.w, c.h)
            ELSE addWordsLayer(d, words, c.w, c.h, iw, ih)
        order == LayerOrder(d)
        after == Run(p, <<AddPageFormat(c.orientation, c.w, c.h)>>
                        \o Layer(order[1]) \o Layer(order[2]), 1)
    IN  [pdf |-> after, res |-> c, err |-> FALSE]

(* Document.AddPage: the writer after the call, the page configuration and *)
(* the error returned, which is the writer's                               *)
AddPage(d, p, image, imagename, words, format) ==
    LET iw == R(Dimensions(image)[1])
        ih == R(Dimensions(image)[2])
        c == GetPageConfiguration(d, iw, ih)
        Layer(l) ==
            IF l = "Scan"
            THEN AddImageLayer(d, image, imagename, format, c.w, c.h)
            ELSE addWordsLayer(d, words, c.w, c.h, iw, ih)
        order == LayerOrder(d)
        after == Run(p, <<AddPageFormat(c.orientation, c.w, c.h)>>
                        \o Layer(order[1]) \o Layer(order[2]), 1)
    IN  [pdf |-> after, res |-> c, err |-> after.err]

(* Document.addImageLayer of the direct implementation *)
addImageLayer(d, image, imgName, format, w, h) ==
    LET r == Reader(image, format)
    IN  IF r.err THEN [cmds |-> <<BeginLayer("Scan")>>, err |-> TRUE]
        ELSE [cmds |-> <<BeginLayer("Scan"),
                         SetXY(Z, Z),
                         RegisterImageReader(imgName, r.format)>>
                       \o When(d.debug, <<SetAlpha(<<1, 2>>, "Normal")>>)
                       \o <<Image(imgName, Z, Z, w, h, r.format), EndLayer>>
                       \o When(d.debug, <<SetAlpha(<<1, 1>>, "Normal")>>),
              err |-> FALSE]

(* Document.AddPage of the direct implementation: the page is added with   *)
(* the base size, the fit is computed in place, and the words are scaled   *)
(* by (mx, my) one by one                                                  *)
AddPageDirect(d, p, imgName, image, words, format) ==
    LET iw == R(Dimensions(image)[1])
        ih == R(Dimensions(image)[2])
        base == GetPageSize(d)
        wide == d.orientation = AutoOrientation /\ Gt(iw, ih)
        orientation ==
            IF d.orientation = AutoOrientation
            THEN IF wide THEN LandscapeOrientation ELSE PortraitOrientation
            ELSE d.orientation
        pw == IF wide THEN base[2] ELSE base[1]
        ph == IF wide THEN base[1] ELSE base[2]
        fit == Fit(iw, ih, pw, ph)
        c == [w |-> fit[1], h |-> fit[2], orientation |-> orientation,
              pw |-> pw, ph |-> ph, swapped |-> wide]
        img == addImageLayer(d, image, imgName, format, fit[1], fit[2])
        txt == addTextLayer(d, words, Div(fit[1], iw), Div(fit[2], ih))
        after == Run(p, <<AddPageFormat(orientation, base[1], base[2])>>
                        \o IF d.debug
                           THEN img.cmds \o When(~ img.err, txt)
                           ELSE txt \o img.cmds, 1)
    IN  [pdf |-> after, res |-> c, err |-> img.err \/ after.err]

-----------------------------------------------------------------------------
(* calls on a Document: the geometry resolver *)

NoCall == [op |-> "none"]

(* no command is running *)
NoMain == [pc |-> "none"]

NoEnv == [out |-> "none"]

Configs(debugs, orientations, scalings, sizes, fonts) ==
    [debug : debugs, orientation : orientations, textScaling : scalings,
     size : sizes, fontSize : fonts]

InitGeometry ==
    /\ doc \in Configs({FALSE}, Orientations, {MatchTextScaling}, SizeNames, {1})
    /\ pdf = NewPdf
    /\ call = NoCall
    /\ main = NoMain
    /\ env = NoEnv

GetPageConfigurationCall ==
    \E s \in Shapes :
        /\ call' = [op |-> "GetPageConfiguration", iw |-> s[1], ih |-> s[2],
                    res |-> GetPageConfiguration(doc, R(s[1]), R(s[2]))]
        /\ UNCHANGED <<doc, pdf, main, env>>

NextGeometry == GetPageConfigurationCall

SpecGeometry == InitGeometry /\ [][NextGeometry]_vars

-----------------------------------------------------------------------------
(* calls on a Document: the text layer of one word *)

Words ==
    {NewWord(t, l, tp, l + w, tp + h) :
        t \in Texts, l \in 0..MaxOff, tp \in 0..MaxOff, w \in 1..MaxExt, h \in 1..MaxExt}

(* pixel-to-page factors handed to addTextLayer *)
Factors == {<<1, 2>>, <<3, 2>>}

InitWords ==
    /\ doc \in Configs(BOOLEAN, {AutoOrientation}, TextScalings, {"a4"}, FontSizes)
    /\ pdf = NewPdf
    /\ call = NoCall
    /\ main = NoMain
    /\ env = NoEnv

AddWordsCall ==
    /\ pdf.ops = <<>>
    /\ \E word \in Words :
        /\ pdf' = Run(pdf, AddWords(doc, <<word>>), 1)
        /\ call' = [op |-> "AddWords", words |-> <<word>>, mx |-> R(1), my |-> R(1)]
    /\ UNCHANGED <<doc, main, env>>

addTextLayerCall ==
    /\ pdf.ops = <<>>
    /\ \E word \in Words, m \in Factors :
        /\ pdf' = Run(pdf, addTextLayer(doc, <<word>>, m, m), 1)
        /\ call' = [op |-> "addTextLayer", words |-> <<word>>, mx |-> m, my |-> m]
    /\ UNCHANGED <<doc, main, env>>

NextWords == AddWordsCall \/ addTextLayerCall

SpecWords == InitWords /\ [][NextWords]_vars

-----------------------------------------------------------------------------
(* calls on a Document: one page *)

PageShapes == ((1..MaxPageDim) \X (1..MaxPageDim)) \cup {<<2000, 1000>>}

PixFormats == {"unknown", "jpg", "png"}

Formats == {"auto", "jpg", "png"}

Images == {[w |-> s[1], h |-> s[2], pixFormat |-> f] : s \in PageShapes, f \in PixFormats}

(* the words recognised in an image: the word of the worked example in the *)
(* 2000x1000 scan; in a small image the first pixel, the last pixel and    *)
(* the whole image                                                         *)
PageWords(image) ==
    LET t == TextOfLen(MaxText)
    IN  IF image.w = 2000
        THEN {NewWord(t, 100, 50, 300, 150)}
        ELSE {NewWord(t, 0, 0, 1, 1),
              NewWord(t, image.w - 1, image.h - 1, image.w, image.h),
              NewWord(t, 0, 0, image.w, image.h)}

RECURSIVE SeqsOf(_, _)
SeqsOf(S, n) ==
    IF n = 0 THEN {<<>>}
    ELSE LET shorter == SeqsOf(S, n - 1)
         IN  shorter \cup {Append(q, x) : q \in {r \in shorter : Len(r) = n - 1}, x \in S}

WordLists(image) == SeqsOf(PageWords(image), MaxWords) \ {<<>>}

InitPage ==
    /\ doc \in Configs(BOOLEAN, Orientations, TextScalings, {"a4"}, {1})
    /\ pdf = NewPdf
    /\ call = NoCall
    /\ main = NoMain
    /\ env = NoEnv

AddPageCall ==
    /\ pdf.page = 0
    /\ \E image \in Images, format \in Formats :
       \E words \in WordLists(image) :
          LET r == AddPage(doc, pdf, image, "scan", words, format)
          IN  /\ pdf' = r.pdf
              /\ call' = [op |-> "AddPage", image |-> image, words |-> words,
                          format |-> format, res |-> r.res, err |-> r.err,
                          mx |-> Div(r.res.w, R(image.w)),
                          my |-> Div(r.res.h, R(image.h))]
    /\ UNCHANGED <<doc, main, env>>

AddPageDirectCall ==
    /\ pdf.page = 0
    /\ \E image \in Images, format \in Formats :
       \E words \in WordLists(image) :
          LET r == AddPageDirect(doc, pdf, "scan", image, words, format)
          IN  /\ pdf' = r.pdf
              /\ call' = [op |-> "AddPageDirect", image |-> image, words |-> words,
                          format |-> format, res |-> r.res, err |-> r.err,
                          mx |-> Div(r.res.w, R(image.w)),
                          my |-> Div(r.res.h, R(image.h))]
    /\ UNCHANGED <<doc, main, env>>

NextPage == AddPageCall \/ AddPageDirectCall

SpecPage == InitPage /\ [][NextPage]_vars

-----------------------------------------------------------------------------
(* calls on an Image: the format resolution *)

(* the tokens a caller of the library can pass as format *)
Tokens == Formats \cup {"", "gif", "jpeg", "PNG"}

InitReader ==
    /\ doc \in Configs(BOOLEAN, {AutoOrientation}, {MatchTextScaling}, {"a4"}, {1})
    /\ pdf = NewPdf
    /\ call = NoCall
    /\ main = NoMain
    /\ env = NoEnv

ReaderCall ==
    /\ call = NoCall
    /\ \E image \in Images, format \in Tokens :
          call' = [op |-> "Reader", image |-> image, format |-> format,
                   res |-> Reader(image, format)]
    /\ UNCHANGED <<doc, pdf, main, env>>

ReaderSwitchCall ==
    /\ call = NoCall
    /\ \E image \in Images, format \in Tokens :
          call' = [op |-> "ReaderSwitch", image |-> image, format |-> format,
                   res |-> ReaderSwitch(image, format)]
    /\ UNCHANGED <<doc, pdf, main, env>>

ReaderTableCall ==
    /\ call = NoCall
    /\ \E image \in Images, format \in Tokens :
          call' = [op |-> "ReaderTable", image |-> image, format |-> format,
                   res |-> ReaderTable(image, format)]
    /\ UNCHANGED <<doc, pdf, main, env>>

(* AddPage called by a user of the library, with any token *)
AddPageTokenCall ==
    /\ call = NoCall
    /\ \E image \in Images, format \in Tokens :
          LET words == <<NewWord(TextOfLen(1), 0, 0, image.w, image.h)>>
              r == AddPage(doc, pdf, image, "scan", words, format)
          IN  /\ pdf' = r.pdf
              /\ call' = [op |-> "AddPage", image |-> image, format |-> format,
                          res |-> [err |-> r.err, format |-> "", encoding |-> ""]]
    /\ UNCHANGED <<doc, main, env>>

NextReader == ReaderCall \/ ReaderSwitchCall \/ ReaderTableCall \/ AddPageTokenCall

SpecReader == InitReader /\ [][NextReader]_vars

-----------------------------------------------------------------------------
(* main: file names *)

(* a file name is a sequence of characters *)
ScanJpg == <<"s", "c", "a", "n", ".", "j", "p", "g">>

ImgPng == <<"i", "m", "g", ".", "p", "n", "g">>

OutPdf == <<"o", "u", "t", ".", "p", "d", "f">>

DocPDF == <<"d", "/", "B", ".", "P", "D", "F">>

DotPdf == <<".", "p", "d", "f">>

(* unicode.ToLower, on the letters that occur in the names *)
LowerCase == [B |-> "b", D |-> "d", F |-> "f", P |-> "p"]

(* strings.ToLower *)
ToLowerString(str) ==
    [i \in 1..Len(str) |-> IF str[i] \in DOMAIN LowerCase THEN LowerCase[str[i]] ELSE str[i]]

(* filepath.Ext: the suffix beginning at the final dot in the final        *)
(* element of path; empty if there is no dot                               *)
RECURSIVE ExtFrom(_, _)
ExtFrom(path, i) ==
    IF i < 1 \/ path[i] = "/" THEN <<>>
    ELSE IF path[i] = "." THEN SubSeq(path, i, Len(path))
    ELSE ExtFrom(path, i - 1)

Ext(path) == ExtFrom(path, Len(path))

(* strings.TrimRight: str without its trailing characters that are in the  *)
(* set of characters of cutset                                             *)
RECURSIVE TrimRight(_, _)
TrimRight(str, cutset) ==
    IF str = <<>> \/ str[Len(str)] \notin {cutset[i] : i \in 1..Len(cutset)}
    THEN str
    ELSE TrimRight(SubSeq(str, 1, Len(str) - 1), cutset)

(* mutant of RemoveAt: the output file stays in the list of input files *)
RemoveAtKeeps(infns, pos) == infns

(* append(infns[:pos], infns[pos+1:]...), with positions counted from 1 *)
RemoveAt(infns, pos) == SubSeq(infns, 1, pos - 1) \o SubSeq(infns, pos + 1, Len(infns))

(* the search of the input files for a .pdf file: the position and name of *)
(* the one found, or multiple when a second one is met                     *)
RECURSIVE SearchPdf(_, _, _, _)
SearchPdf(infns, i, pos, outfn) ==
    IF i > Len(infns) THEN [multiple |-> FALSE, pos |-> pos, outfn |-> outfn]
    ELSE IF ToLowerString(Ext(infns[i])) = DotPdf
         THEN IF pos >= 1
              THEN [multiple |-> TRUE, pos |-> pos, outfn |-> outfn]
              ELSE SearchPdf(infns, i + 1, i, infns[i])
         ELSE SearchPdf(infns, i + 1, pos, outfn)

(* the output file name and the input file names main settles on, or exit  *)
(* when it exits with code 1                                               *)
OutputName(output, files) ==
    IF output # <<>> THEN [exit |-> FALSE, outfn |-> output, infns |-> files]
    ELSE LET found == SearchPdf(files, 1, 0, output)
         IN  IF found.multiple
             THEN [exit |-> TRUE, outfn |-> found.outfn, infns |-> files]
             ELSE IF found.pos >= 1
                  THEN [exit |-> FALSE, outfn |-> found.outfn,
                        infns |-> RemoveAt(files, found.pos)]
                  ELSE [exit |-> FALSE,
                        outfn |-> TrimRight(files[1], Ext(files[1])) \o DotPdf,
                        infns |-> files]

-----------------------------------------------------------------------------
(* main: the image pipeline of a page *)

(* Image.Adjust: a 1 bit per pixel image is returned as it is; otherwise   *)
(* the result is a new Image that holds the pixels only, its pixFormat the *)
(* zero value                                                              *)
Adjust(image) ==
    IF image.depth = 1 THEN image ELSE [image EXCEPT !.pixFormat = "unknown"]

(* Image.Scale: a new Image of the given size that holds the pixels only *)
Scale(image, w, h) == [image EXCEPT !.w = w, !.h = h, !.pixFormat = "unknown"]

(* Image.ScaleDown *)
ScaleDown(image, w, h) ==
    IF w * h < Dimensions(image)[1] * Dimensions(image)[2]
    THEN Scale(image, w, h)
    ELSE image

MM_TO_INCH == <<39, 1000>>

(* int32(x) of a positive float64 *)
Int32(x) == x[1] \div x[2]

(* the size in pixels of the page at the requested resolution *)
DpiSize(d, dpi) ==
    LET dpmm == Mul(R(dpi), MM_TO_INCH)
    IN  <<Int32(Mul(GetPageSize(d)[1], dpmm)), Int32(Mul(GetPageSize(d)[2], dpmm))>>

(* Tess.Words: the words recognised in the image; one word, the image *)
TessWords(image) == <<NewWord(TextOfLen(1), 0, 0, image.w, image.h)>>

(* the image handed to the recogniser and to AddPage *)
Prepared(d, image, dpi) ==
    LET size == DpiSize(d, dpi)
    IN  Adjust(IF dpi # 0 THEN ScaleDown(image, size[1], size[2]) ELSE image)

-----------------------------------------------------------------------------
(* main: the output file *)

(* mutant of OpenFlags: the file is truncated with and without --force *)
OpenFlagsTruncate(force) == {"O_RDWR", "O_CREATE", "O_TRUNC"}

OpenFlags(force) ==
    IF force THEN {"O_RDWR", "O_CREATE", "O_TRUNC"}
    ELSE {"O_RDWR", "O_CREATE", "O_EXCL"}

(* mutant of OpenFile: O_TRUNC does not truncate an existing file *)
OpenFileNoTruncate(out, flags) ==
    IF out = "absent" THEN [exist |-> FALSE, out |-> "empty"]
    ELSE IF "O_EXCL" \in flags THEN [exist |-> TRUE, out |-> out]
    ELSE [exist |-> FALSE, out |-> out]

(* os.OpenFile on a file that is absent or old (it exists): whether the    *)
(* call fails because the file exists, and the file after the call        *)
OpenFile(out, flags) ==
    IF out = "absent" THEN [exist |-> FALSE, out |-> "empty"]
    ELSE IF "O_EXCL" \in flags THEN [exist |-> TRUE, out |-> out]
    ELSE IF "O_TRUNC" \in flags THEN [exist |-> FALSE, out |-> "empty"]
    ELSE [exist |-> FALSE, out |-> out]

-----------------------------------------------------------------------------
(* main: the run of the command *)

MaxArgs == 2

Names == {ScanJpg, ImgPng, OutPdf, DocPDF}

(* the files argument is required: at least one name *)
ArgLists == SeqsOf(Names, MaxArgs) \ {<<>>}

Dpis == {0, 72}

(* what NewImageFromFile can return: a small scan at 8 bits per pixel and  *)
(* a large one at 1 bit per pixel, read from a JPEG, a PNG or another      *)
(* format                                                                  *)
MainImages ==
    {[w |-> s[1], h |-> s[2], pixFormat |-> f, depth |-> s[3]] :
        s \in {<<2, 1, 8>>, <<2000, 1000, 1>>}, f \in PixFormats}

Event(ev, fn, ok) == [ev |-> ev, fn |-> fn, ok |-> ok]

Exit(code) == [main EXCEPT !.pc = "exited", !.exit = code]

(* mutant of LoopBody: the recogniser runs before it is given the image *)
LoopBodyStaleImage(fn, err) ==
    <<Event("read", fn, TRUE), Event("Words", fn, TRUE),
      Event("SetImagePix", fn, TRUE), Event("AddPage", fn, ~ err)>>

(* the calls of one iteration that reads its image: NewImageFromFile,      *)
(* tess.SetImagePix, tess.Words and doc.AddPage, which returns err         *)
LoopBody(fn, err) ==
    <<Event("read", fn, TRUE), Event("SetImagePix", fn, TRUE),
      Event("Words", fn, TRUE), Event("AddPage", fn, ~ err)>>

(* mutant of More: the loop stops before the last input file *)
MoreButLast(i, infns) == i < Len(infns)

(* for i, fn := range infns, with positions counted from 1 *)
More(i, infns) == i <= Len(infns)

InitMain ==
    /\ doc \in Configs({FALSE}, {AutoOrientation}, {MatchTextScaling}, {"a4"}, {1})
    /\ pdf = NewPdf
    /\ call = NoCall
    /\ main \in [pc : {"NewTess"}, files : ArgLists, output : {<<>>, OutPdf},
                 force : BOOLEAN, format : Formats, dpi : Dpis,
                 outfn : {<<>>}, infns : {<<>>}, i : {0}, exit : {-1}]
    /\ env \in {[out |-> o, existed |-> o = "old", events |-> <<>>] : o \in {"absent", "old"}}

(* NewTess, NewDocument and the setters *)
NewTessStep ==
    /\ main.pc = "NewTess"
    /\ \E ok \in BOOLEAN :
          main' = IF ok THEN [main EXCEPT !.pc = "names"] ELSE Exit(1)
    /\ UNCHANGED <<doc, pdf, call, env>>

OutputNameStep ==
    /\ main.pc = "names"
    /\ LET r == OutputName(main.output, main.files)
       IN  main' = IF r.exit THEN Exit(1)
                   ELSE [main EXCEPT !.pc = "open", !.outfn = r.outfn, !.infns = r.infns]
    /\ UNCHANGED <<doc, pdf, call, env>>

(* os.OpenFile and the two tests of its error; denied is any error other   *)
(* than that the file exists                                               *)
OpenFileStep ==
    /\ main.pc = "open"
    /\ \E denied \in BOOLEAN :
          LET r == OpenFile(env.out, OpenFlags(main.force))
          IN  IF denied \/ r.exist
              THEN /\ main' = Exit(1)
                   /\ env' = [env EXCEPT !.events = Append(@, Event("open", main.outfn, FALSE))]
              ELSE /\ main' = [main EXCEPT !.pc = "loop", !.i = 1]
                   /\ env' = [env EXCEPT !.out = r.out,
                                         !.events = Append(@, Event("open", main.outfn, TRUE))]
    /\ UNCHANGED <<doc, pdf, call>>

(* one iteration of the loop over the input files *)
PageStep ==
    /\ main.pc = "loop"
    /\ More(main.i, main.infns)
    /\ LET fn == main.infns[main.i]
       IN  \/ /\ main' = Exit(1)
              /\ env' = [env EXCEPT !.events = Append(@, Event("read", fn, FALSE))]
              /\ UNCHANGED <<pdf, call>>
           \/ \E image \in MainImages :
                 LET img == Prepared(doc, image, main.dpi)
                     r == AddPage(doc, pdf, img, fn, TessWords(img), main.format)
                 IN  /\ pdf' = r.pdf
                     /\ call' = [op |-> "main.AddPage", fn |-> fn, native |-> image.pixFormat,
                                 image |-> img, format |-> main.format, err |-> r.err]
                     /\ env' = [env EXCEPT !.events = @ \o LoopBody(fn, r.err)]
                     /\ main' = IF r.err THEN Exit(1) ELSE [main EXCEPT !.i = @ + 1]
    /\ UNCHANGED doc

(* doc.OutputAndClose(outfile): its error is not looked at, main returns *)
OutputAndCloseStep ==
    /\ main.pc = "loop"
    /\ ~ More(main.i, main.infns)
    /\ \E ok \in BOOLEAN :
          env' = [env EXCEPT !.out = IF ok THEN "written" ELSE "broken",
                             !.events = Append(@, Event("OutputAndClose", main.outfn, ok))]
    /\ main' = Exit(0)
    /\ UNCHANGED <<doc, pdf, call>>

NextMain ==
    \/ NewTessStep
    \/ OutputNameStep
    \/ OpenFileStep
    \/ PageStep
    \/ OutputAndCloseStep

SpecMain == InitMain /\ [][NextMain]_vars

-----------------------------------------------------------------------------
(* main: the pixel buffer of a page and the finalizer of its Image *)

(* one page, from NewImageFromFile to the return of AddPage.  main.img is  *)
(* the Image the variable img points to, main.obj which Image object that  *)
(* is (the one NewImageFromFile returned, the result of Scale or the       *)
(* result of Adjust) and main.buf the PIX it holds; env.pix is the state   *)
(* of each PIX, env.finalizer that of the finalizer NewImageFromFile set   *)
(* on the Image it returned, env.stale the calls that were handed a PIX    *)
(* after it was destroyed.                                                 *)
InitBuffer ==
    /\ doc \in Configs({FALSE}, {AutoOrientation}, {MatchTextScaling}, {"a4"}, {1})
    /\ pdf = NewPdf
    /\ call = NoCall
    /\ main \in [pc : {"NewImageFromFile"}, file : MainImages, dpi : Dpis,
                 format : Formats, img : {[w |-> 0, h |-> 0]}, obj : {"none"},
                 buf : {"none"}]
    /\ env = [pix |-> [read |-> "none", scaled |-> "none"], finalizer |-> "none",
              stale |-> {}]

(* the call op reads the PIX of img and the page goes on at pc next; what  *)
(* a call does with a destroyed PIX is undefined: it may go on or crash    *)
Uses(op, next, img, obj, buf) ==
    IF env.pix[main.buf] = "destroyed"
    THEN /\ env' = [env EXCEPT !.stale = @ \cup {op}]
         /\ \E crash \in BOOLEAN :
               main' = IF crash THEN [main EXCEPT !.pc = "crashed"]
                       ELSE [main EXCEPT !.pc = next, !.img = img, !.obj = obj,
                                         !.buf = buf]
    ELSE /\ env' = env
         /\ main' = [main EXCEPT !.pc = next, !.img = img, !.obj = obj, !.buf = buf]

(* NewImageFromFile: pixRead, and runtime.SetFinalizer with Image.delete *)
NewImageFromFileStep ==
    /\ main.pc = "NewImageFromFile"
    /\ main' = [main EXCEPT !.pc = "Dimensions", !.img = main.file, !.obj = "read",
                            !.buf = "read"]
    /\ env' = [env EXCEPT !.pix.read = "live", !.finalizer = "set"]
    /\ UNCHANGED <<doc, pdf, call>>

DimensionsStep ==
    /\ main.pc = "Dimensions"
    /\ Uses("Dimensions", "ScaleDown", main.img, main.obj, main.buf)
    /\ UNCHANGED <<doc, pdf, call>>

(* img = img.ScaleDown(w, h), when --dpi is given: Scale makes a new PIX *)
ScaleDownStep ==
    /\ main.pc = "ScaleDown"
    /\ LET size == DpiSize(doc, main.dpi)
           img == IF main.dpi # 0 THEN ScaleDown(main.img, size[1], size[2])
                  ELSE main.img
       IN  IF main.dpi = 0
           THEN main' = [main EXCEPT !.pc = "Adjust"] /\ env' = env
           ELSE IF img = main.img
                THEN Uses("ScaleDown", "Adjust", main.img, main.obj, main.buf)
                ELSE /\ main' = [main EXCEPT !.pc = "Adjust", !.img = img,
                                             !.obj = "scaled", !.buf = "scaled"]
                     /\ env' = [env EXCEPT
                                   !.pix.scaled = "live",
                                   !.stale = IF env.pix[main.buf] = "destroyed"
                                             THEN @ \cup {"ScaleDown"} ELSE @]
    /\ UNCHANGED <<doc, pdf, call>>

(* img = img.Adjust(...): pixContrastTRC(i.cPIX, i.cPIX, ...) works in     *)
(* place, so the new Image holds the PIX of the old one                    *)
AdjustStep ==
    /\ main.pc = "Adjust"
    /\ LET img == Adjust(main.img)
       IN  Uses("Adjust", "SetImagePix", img,
                IF main.img.depth = 1 THEN main.obj ELSE "adjusted", main.buf)
    /\ UNCHANGED <<doc, pdf, call>>

SetImagePixStep ==
    /\ main.pc = "SetImagePix"
    /\ Uses("SetImagePix", "Words", main.img, main.obj, main.buf)
    /\ UNCHANGED <<doc, pdf, call>>

WordsStep ==
    /\ main.pc = "Words"
    /\ Uses("Words", "AddPage", main.img, main.obj, main.buf)
    /\ UNCHANGED <<doc, pdf, call>>

(* doc.AddPage: image.Dimensions, then image.Reader, which encodes the PIX *)
(* unless it returns its error                                             *)
AddPageBufferStep ==
    /\ main.pc = "AddPage"
    /\ Uses(IF Reader(main.img, main.format).err THEN "AddPage.Dimensions"
            ELSE "AddPage.Reader", "done", main.img, main.obj, main.buf)
    /\ UNCHANGED <<doc, pdf, call>>

(* the Image NewImageFromFile returned is reachable through img only *)
Unreachable == main.obj # "read"

(* Image.delete, run by the garbage collector: pixDestroy *)
FinalizerStep ==
    /\ env.finalizer = "set"
    /\ Unreachable
    /\ env' = [env EXCEPT !.finalizer = "ran", !.pix.read = "destroyed"]
    /\ UNCHANGED <<doc, pdf, call, main>>

NextBuffer ==
    \/ NewImageFromFileStep
    \/ DimensionsStep
    \/ ScaleDownStep
    \/ AdjustStep
    \/ SetImagePixStep
    \/ WordsStep
    \/ AddPageBufferStep
    \/ FinalizerStep

SpecBuffer == InitBuffer /\ [][NextBuffer]_vars

-----------------------------------------------------------------------------
(* the layer ordering policy: claim C1 *)

PageCall == call.op \in {"AddPage", "AddPageDirect"}

(* the layer a recorded call belongs to *)
LayerOf(o) == IF o.op = "BeginLayer" THEN o.id ELSE o.layer

Begun(l) == {i \in 1..Len(pdf.ops) : pdf.ops[i].op = "BeginLayer" /\ pdf.ops[i].id = l}

(* every call of layer first is made before every call of layer second *)
Precedes(first, second) ==
    \A i, j \in 1..Len(pdf.ops) :
        (LayerOf(pdf.ops[i]) = first /\ LayerOf(pdf.ops[j]) = second) => i < j

(* C1: on every page, with debug off the text (OCR) layer is composited    *)
(* first and the image (Scan) layer strictly after it, with debug on the   *)
(* image layer first and the text layer strictly after it; a page that     *)
(* AddPage added without error has both layers, each once.                 *)
C1_LayerOrder ==
    PageCall =>
        /\ IF doc.debug THEN Precedes("Scan", "OCR") ELSE Precedes("OCR", "Scan")
        /\ ~ call.err =>
              Cardinality(Begun("OCR")) = 1 /\ Cardinality(Begun("Scan")) = 1

C1_Witness ==
    /\ PageCall /\ doc.debug /\ ~ call.err
    /\ \E i \in Begun("Scan"), j \in Begun("OCR") : i < j /\ pdf.ops[i].nest = 0
    /\ \E k \in 1..Len(pdf.ops) : pdf.ops[k].op = "Image"

-----------------------------------------------------------------------------
(* the geometry resolver: claims C2 to C5 *)

Resolved == call.op = "GetPageConfiguration"

BaseW == GetPageSize(doc)[1]

BaseH == GetPageSize(doc)[2]

(* C2: with orientation auto the resolved orientation is landscape if and  *)
(* only if iw > ih, the base width and height are swapped exactly in that  *)
(* case, and iw = ih resolves to portrait without a swap.                  *)
C2_AutoLandscapeIffWider ==
    (Resolved /\ doc.orientation = AutoOrientation) =>
        /\ call.res.orientation =
              (IF call.iw > call.ih THEN LandscapeOrientation ELSE PortraitOrientation)
        /\ <<call.res.pw, call.res.ph>> =
              (IF call.iw > call.ih THEN <<BaseH, BaseW>> ELSE <<BaseW, BaseH>>)

C2_Witness ==
    /\ Resolved /\ doc.orientation = AutoOrientation
    /\ call.iw = call.ih
    /\ call.res.orientation = PortraitOrientation
    /\ call.res.pw = BaseW

(* C3: for every orientation setting and base size the returned (w, h) has *)
(* the image's aspect ratio, w*ih = h*iw, hence mx = my, and exceeds the   *)
(* (possibly swapped) base box in neither dimension.                       *)
C3_AspectKeptWithinBox ==
    Resolved =>
        LET r == call.res
            iw == R(call.iw)
            ih == R(call.ih)
        IN  /\ Mul(r.w, ih) = Mul(r.h, iw)
            /\ Div(r.w, iw) = Div(r.h, ih)
            /\ Le(r.w, r.pw) /\ Le(r.h, r.ph)
            /\ Gt(r.w, Z) /\ Gt(r.h, Z)

C3_Witness ==
    /\ Resolved /\ doc.orientation = LandscapeOrientation
    /\ call.iw < call.ih
    /\ Lt(call.res.w, call.res.pw)
    /\ Mul(call.res.w, R(call.ih)) = Mul(call.res.h, R(call.iw))

(* C4, as claimed: the fit changes exactly one of the two axes of the      *)
(* (possibly swapped) page box.                                            *)
C4_ExactlyOneAxisChanges ==
    Resolved =>
        (call.res.w # call.res.pw) # (call.res.h # call.res.ph)

(* C4, amended: the fit never changes both axes; it changes exactly one    *)
(* unless the image has exactly the shape of the page box                  *)
(* (iw*ph = ih*pw), and then it changes neither.                           *)
C4_AtMostOneAxisChanges ==
    Resolved =>
        LET r == call.res
            same == Mul(R(call.iw), r.ph) = Mul(R(call.ih), r.pw)
        IN  /\ ~ (r.w # r.pw /\ r.h # r.ph)
            /\ (r.w = r.pw /\ r.h = r.ph) <=> same

C4_Witness ==
    /\ Resolved
    /\ call.res.w # call.res.pw
    /\ call.res.h = call.res.ph

(* C5: with an explicit orientation the base width and height are never    *)
(* swapped, the explicit value is the resolved orientation, and the fit is *)
(* computed against the unswapped base box.                                *)
C5_ExplicitNeverSwaps ==
    (Resolved /\ doc.orientation # AutoOrientation) =>
        /\ call.res.orientation = doc.orientation
        /\ <<call.res.pw, call.res.ph>> = <<BaseW, BaseH>>
        /\ <<call.res.w, call.res.h>> = Fit(R(call.iw), R(call.ih), BaseW, BaseH)

C5_Witness ==
    /\ Resolved /\ doc.orientation = PortraitOrientation
    /\ call.iw > call.ih
    /\ call.res.pw = BaseW
    /\ call.res.orientation = PortraitOrientation

-----------------------------------------------------------------------------
(* the text scaling policy: claims C7 to C10 *)

TextCall == call.op \in {"AddWords", "addTextLayer"}

(* the positions in the log of the text draws and of the scale transforms *)
DrawAt(ops) == {i \in 1..Len(ops) : ops[i].op \in {"Cell", "Write"}}

(* the position of the k-th text draw *)
DrawOf(ops, k) ==
    CHOOSE i \in DrawAt(ops) : Cardinality({j \in DrawAt(ops) : j <= i}) = k

(* the scale transform in force at position i: the last one before it *)
ScaleOf(ops, i) ==
    LET at == {j \in 1..(i - 1) : ops[j].op = "TransformScale"}
    IN  ops[CHOOSE j \in at : \A l \in at : l <= j]

(* what the k-th word of the call was given: its box in the caller's       *)
(* coordinates, the font metrics, the factors handed to TransformScale and *)
(* the text draw                                                           *)
Placed(k) ==
    LET word == call.words[k]
        i == DrawOf(pdf.ops, k)
        sc == ScaleOf(pdf.ops, i)
        w == Mul(R(word.Width), call.mx)
        sw0 == GetStringWidth(doc, word.Text)
    IN  [w |-> w, h |-> Mul(R(word.Height), call.my),
         sw0 |-> sw0, sw |-> IF IsZero(sw0) THEN w ELSE sw0,
         sh |-> GetFontSize(doc),
         sx |-> Div(sc.w, R(100)), sy |-> Div(sc.h, R(100)),
         draw |-> pdf.ops[i]]

EachWord(P(_)) ==
    TextCall => \A k \in 1..Len(call.words) : P(Placed(k))

SomeWord(P(_)) ==
    TextCall /\ \E k \in 1..Len(call.words) : P(Placed(k))

(* C7: with scaling off the factors applied are sx = 1 and sy = 1 for      *)
(* every box and font metric, also when the text has width 0.              *)
C7_OffIsUnscaled ==
    LET P(a) == a.sx = R(1) /\ a.sy = R(1)
    IN  doc.textScaling = NoTextScaling => EachWord(P)

C7_Witness ==
    LET P(a) == IsZero(a.sw0) /\ a.sx = R(1) /\ a.w # R(1)
    IN  doc.textScaling = NoTextScaling /\ SomeWord(P)

(* C8: with scaling contain the two factors are equal, the scaled text     *)
(* cell (sw after the zero-width substitution, sh) does not overflow the   *)
(* word box, and the width-limited factor w/sw is taken exactly when       *)
(* sw*h > sh*w, the height-limited factor h/sh otherwise.                  *)
C8_ContainFits ==
    LET P(a) ==
            /\ a.sx = a.sy
            /\ Le(Mul(a.sx, a.sw), a.w)
            /\ Le(Mul(a.sy, a.sh), a.h)
            /\ IF Gt(Mul(a.sw, a.h), Mul(a.sh, a.w))
               THEN a.sx = Div(a.w, a.sw)
               ELSE a.sx = Div(a.h, a.sh)
    IN  doc.textScaling = ContainTextScaling => EachWord(P)

C8_Witness ==
    LET P(a) ==
            /\ Gt(Mul(a.sw, a.h), Mul(a.sh, a.w))
            /\ Mul(a.sx, a.sw) = a.w
            /\ Lt(Mul(a.sy, a.sh), a.h)
    IN  doc.textScaling = ContainTextScaling /\ SomeWord(P)

(* C9: with scaling match the scaled text cell is exactly the word box,    *)
(* sx*sw = w and sy*sh = h (sw after the zero-width substitution); the two *)
(* factors are independent and may differ.                                 *)
C9_MatchIsExact ==
    LET P(a) == Mul(a.sx, a.sw) = a.w /\ Mul(a.sy, a.sh) = a.h
    IN  doc.textScaling = MatchTextScaling => EachWord(P)

C9_Witness ==
    LET P(a) == a.sx # a.sy /\ Mul(a.sx, a.sw) = a.w /\ Mul(a.sy, a.sh) = a.h
    IN  doc.textScaling = MatchTextScaling /\ SomeWord(P)

(* C10, as claimed: for a text of width 0, under each of the three         *)
(* policies, no division by zero is evaluated (the factors are finite) and *)
(* sw is replaced by w, so that the factors and the text cell that is      *)
(* drawn are those of sw = w.                                              *)
C10_ZeroWidthTakesBoxWidth ==
    LET P(a) ==
            IsZero(a.sw0) =>
                /\ Finite(a.sx) /\ Finite(a.sy)
                /\ <<a.sx, a.sy>> =
                      LET f == ScaleFactors(doc.textScaling, a.w, a.h, a.w, a.sh)
                      IN  <<f.sx, f.sy>>
                /\ a.draw.op = "Cell" => a.draw.w = a.w
    IN  EachWord(P)

-----------------------------------------------------------------------------
(* the pixel-to-page mapping: claim C6 *)

(* a point and an extent of a recorded call, in page space: the current    *)
(* transformation of the call applied to its user-space values             *)
PageX(o) == Add(Mul(o.ctm.a, o.x), o.ctm.e)

PageY(o) == Add(Mul(o.ctm.d, o.y), o.ctm.f)

PageW(o) == Mul(o.ctm.a, o.w)

PageH(o) == Mul(o.ctm.d, o.h)

(* the debug outline of the word drawn at position i: the last stroked     *)
(* rectangle before it                                                     *)
OutlineOf(ops, i) ==
    LET at == {j \in 1..(i - 1) : ops[j].op = "Rect" /\ ops[j].id = "D"}
    IN  ops[CHOOSE j \in at : \A l \in at : l <= j]

(* C6: in both implementations every word is placed at the page-space box  *)
(* (left*mx, top*my, width*mx, height*my) with mx = pageW/iw, my =         *)
(* pageH/ih: its text is anchored there, its debug outline is that box,    *)
(* and with scaling match its text cell has that height (and, drawn as a   *)
(* cell, that width).  The 2000x1000 scan on auto/a4 gives the page        *)
(* (297, 148.5), mx = my = 0.1485 and the box (14.85, 7.425, 29.7, 14.85)  *)
(* for the word {100, 50, 300, 150}.                                       *)
C6_WordBoxInPageSpace ==
    PageCall =>
        \A k \in 1..Cardinality(DrawAt(pdf.ops)) :
            LET word == call.words[k]
                i == DrawOf(pdf.ops, k)
                draw == pdf.ops[i]
                mx == Div(call.res.w, R(call.image.w))
                my == Div(call.res.h, R(call.image.h))
                x == Mul(R(word.Left), mx)
                y == Mul(R(word.Top), my)
                w == Mul(R(word.Width), mx)
                h == Mul(R(word.Height), my)
            IN  /\ <<PageX(draw), PageY(draw)>> = <<x, y>>
                /\ doc.debug =>
                      LET o == OutlineOf(pdf.ops, i)
                      IN  <<PageX(o), PageY(o), PageW(o), PageH(o)>> = <<x, y, w, h>>
                /\ doc.textScaling = MatchTextScaling =>
                      /\ PageH(draw) = h
                      /\ draw.op = "Cell" => PageW(draw) = w
                /\ (call.image.w = 2000 /\ doc.orientation = AutoOrientation) =>
                      /\ <<call.res.w, call.res.h>> = <<R(297), <<297, 2>>>>
                      /\ <<mx, my>> = <<<<297, 2000>>, <<297, 2000>>>>
                      /\ <<x, y, w, h>> = <<<<297, 20>>, <<297, 40>>, <<297, 10>>, <<297, 20>>>>

C6_Witness ==
    /\ call.op = "AddPage" /\ call.image.w = 2000
    /\ doc.orientation = AutoOrientation /\ doc.debug
    /\ \E i \in 1..Len(pdf.ops) :
          /\ pdf.ops[i].op = "Rect" /\ pdf.ops[i].id = "D"
          /\ <<PageX(pdf.ops[i]), PageW(pdf.ops[i])>> = <<<<297, 20>>, <<297, 10>>>>
          /\ pdf.ops[i].x = R(100)

-----------------------------------------------------------------------------
(* the format resolution: claims C11 to C13 *)

ReaderCalled == call.op \in {"Reader", "ReaderSwitch"}

(* the encoding the image was read from, when it is one a PDF can embed *)
Native(image) == IF image.pixFormat \in {"jpg", "png"} THEN image.pixFormat ELSE "png"

(* C11, as claimed: Image.Reader asked for auto resolves to the image's    *)
(* native encoding when that is jpg or png, and to png for every other     *)
(* native encoding.                                                        *)
C11_AutoKeepsNative ==
    (ReaderCalled /\ call.format = "auto") =>
        /\ ~ call.res.err
        /\ call.res.format = Native(call.image)
        /\ call.res.encoding = Native(call.image)

(* C12, as claimed: Image.Reader asked for jpg or png explicitly encodes   *)
(* the bytes in, and returns the tag of, the requested format, whatever    *)
(* the native encoding, and does not fail because of the native encoding.  *)
C12_ExplicitOverridesNative ==
    (ReaderCalled /\ call.format \in {"jpg", "png"}) =>
        /\ ~ call.res.err
        /\ call.res.format = call.format
        /\ call.res.encoding = call.format

(* C13, as claimed: Image.Reader called with a token other than auto, jpg  *)
(* or png returns an error and no buffer, and AddPage called with such a   *)
(* token returns an error.                                                 *)
C13_OtherTokenIsError ==
    (/\ call.op \in {"Reader", "ReaderSwitch", "ReaderTable", "AddPage"}
     /\ call.format \notin {"auto", "jpg", "png"}) =>
        /\ call.res.err
        /\ call.res.encoding = ""

-----------------------------------------------------------------------------
(* the run of the command: claims C14 to C20 *)

Events == env.events

Exited == main.pc = "exited"

(* the output and input file names have been settled *)
Named == main.pc \in {"open", "loop"} \/ Events # <<>>

PageEvents == {"read", "Words", "AddPage"}

EventsAt(evs) == {i \in 1..Len(Events) : Events[i].ev \in evs}

(* the file names of the events of the given kind that succeeded, in order *)
RECURSIVE NamesFrom(_, _)
NamesFrom(ev, i) ==
    IF i > Len(Events) THEN <<>>
    ELSE IF Events[i].ev = ev /\ Events[i].ok
         THEN <<Events[i].fn>> \o NamesFrom(ev, i + 1)
         ELSE NamesFrom(ev, i + 1)

AddedPages == NamesFrom("AddPage", 1)

(* the positional arguments with the extension .pdf *)
PdfArgs == {i \in 1..Len(main.files) : ToLowerString(Ext(main.files[i])) = DotPdf}

(* the tags under which the image of the current page is embedded *)
EmbeddedAs == {pdf.ops[i].txt[1] : i \in {k \in 1..Len(pdf.ops) : pdf.ops[k].op = "Image"}}

(* C14, as claimed: in a run with --format auto the image embedded for a   *)
(* page is JPEG when the page's input file is JPEG and PNG when it is PNG: *)
(* the native format recorded by NewImageFromFile is the one Reader sees   *)
(* after ScaleDown and Adjust.                                             *)
C14_AutoEmbedsNative ==
    (/\ call.op = "main.AddPage"
     /\ call.format = "auto"
     /\ call.native \in {"jpg", "png"}) =>
        /\ call.image.pixFormat = call.native
        /\ EmbeddedAs = {call.native}

(* C15, as claimed: the exit code is 0 only when every stage succeeded     *)
(* (engine init, output file open, every read, every AddPage and the final *)
(* write of the document), and 1 when any of them failed.                  *)
C15_ExitZeroIffAllSucceeded ==
    Exited =>
        /\ main.exit \in {0, 1}
        /\ main.exit = 0 <=>
              /\ \A i \in 1..Len(Events) : Events[i].ok
              /\ EventsAt({"OutputAndClose"}) # {}
              /\ AddedPages = main.infns

(* C16: the first error at any stage of page k aborts the run: the failed  *)
(* step is the last thing done, the exit code is 1, the document is not    *)
(* flushed, an error of the writer is never run past, and no page is done  *)
(* twice (the j-th read is of the j-th input file).                        *)
C16_FirstErrorAborts ==
    main.pc # "none" =>
        /\ \A i \in EventsAt(PageEvents) :
              ~ Events[i].ok =>
                  /\ i = Len(Events)
                  /\ Exited /\ main.exit = 1
                  /\ env.out \notin {"written", "broken"}
        /\ pdf.err => (Exited /\ main.exit = 1 /\ EventsAt({"OutputAndClose"}) = {})
        /\ \A ev \in PageEvents :
              LET at == EventsAt({ev})
              IN  /\ Cardinality(at) <= Len(main.infns)
                  /\ \A i \in at :
                        Events[i].fn = main.infns[Cardinality({j \in at : j <= i})]

C16_Witness ==
    /\ Exited
    /\ Len(main.infns) = 2
    /\ Len(Events) = 5
    /\ Events[5].ev = "AddPage" /\ ~ Events[5].ok

(* C17: the document is flushed at most once; when it is, every input file *)
(* has been added by a successful AddPage, in input order, and nothing is  *)
(* added after the flush; a run that completes all pages and exits has     *)
(* flushed exactly once.                                                   *)
C17_FlushOnceAfterAllPages ==
    main.pc # "none" =>
        LET flushes == EventsAt({"OutputAndClose"})
        IN  /\ Cardinality(flushes) <= 1
            /\ \A i \in flushes : i = Len(Events) /\ AddedPages = main.infns
            /\ (Exited /\ Named /\ Events[1].ok /\ AddedPages = main.infns) =>
                  Cardinality(flushes) = 1

C17_Witness ==
    /\ Exited
    /\ Len(main.infns) = 2
    /\ EventsAt({"OutputAndClose"}) # {}
    /\ AddedPages = main.infns

(* the name without its final extension *)
Stem(fn) == SubSeq(fn, 1, Len(fn) - Len(Ext(fn)))

(* C18, as claimed: with no --output and no input argument ending in .pdf  *)
(* the output file name is the first input file name with its extension    *)
(* replaced by .pdf: only the final extension is removed, the rest of the  *)
(* name is kept.                                                           *)
C18_OutputNameReplacesExtension ==
    (Named /\ main.output = <<>> /\ PdfArgs = {}) =>
        main.outfn = Stem(main.files[1]) \o DotPdf

C20_ExistingOutputNeedsForce ==
    (main.pc # "none" /\ env.existed) =>
        /\ ~ main.force =>
              /\ env.out = "old"
              /\ EventsAt(PageEvents) = {}
              /\ Events # <<>> => (Exited /\ main.exit = 1 /\ ~ Events[1].ok)
        /\ (main.force /\ Events # <<>> /\ Events[1].ok) =>
              /\ env.out \in {"empty", "written", "broken"}
              /\ EventsAt({"OutputAndClose"}) = {} => env.out = "empty"

C20_Witness ==
    /\ env.existed /\ ~ main.force
    /\ Exited /\ main.exit = 1
    /\ Events = <<Event("open", main.outfn, FALSE)>>

-----------------------------------------------------------------------------
(* the page pipeline: claim C21 *)

(* C21: the pipeline is strictly sequential: the read of a page follows    *)
(* the open of the output file or the return of a successful AddPage of    *)
(* the page before; within a page the engine is given the image that was   *)
(* just read, Words runs right after that SetImagePix (the engine's image  *)
(* is not replaced in between), and AddPage follows Words.                 *)
C21_PagesInSequence ==
    main.pc # "none" =>
        \A i \in 1..Len(Events) :
            LET Follows(evs) ==
                    /\ i > 1
                    /\ Events[i - 1].ev \in evs
                    /\ Events[i - 1].ok
                SamePage == Events[i - 1].fn = Events[i].fn
            IN  /\ Events[i].ev = "read" => Follows({"open", "AddPage"})
                /\ Events[i].ev = "SetImagePix" => (Follows({"read"}) /\ SamePage)
                /\ Events[i].ev = "Words" => (Follows({"SetImagePix"}) /\ SamePage)
                /\ Events[i].ev = "AddPage" => (Follows({"Words"}) /\ SamePage)

C21_Witness ==
    /\ Exited
    /\ Len(AddedPages) = 2
    /\ Cardinality(EventsAt({"SetImagePix"})) = 2
    /\ AddedPages[1] # AddedPages[2]

-----------------------------------------------------------------------------
(* the render contract of the text layer: claim C22 *)

(* the names of the calls made for one word, in order *)
WordPattern ==
    (IF doc.debug THEN <<"SetDrawColor", "Rect">> ELSE <<>>)
    \o <<"SetXY", "TransformBegin", "TransformScale">>
    \o (IF doc.debug THEN <<"SetAlpha", "SetFillColor", "Rect", "SetAlpha">> ELSE <<>>)
    \o <<IF call.op = "AddPage" THEN "Cell" ELSE "Write", "TransformEnd">>

(* the calls of the text layer between its BeginLayer and EndLayer, less   *)
(* the transform AddPage wraps around the words: the last position before  *)
(* the first word and the position of the last call of the last word       *)
BeforeWords ==
    (CHOOSE i \in Begun("OCR") : TRUE) + (IF call.op = "AddPage" THEN 2 ELSE 0)

LastOfWords ==
    (CHOOSE i \in 1..Len(pdf.ops) : pdf.ops[i].op = "EndLayer" /\ pdf.ops[i].layer = "OCR")
    - (IF call.op = "AddPage" THEN 2 ELSE 1)

(* C22: in the text layer the words are rendered in the order of the word  *)
(* list, one text draw a word; the calls of a word are, in order: (debug)  *)
(* the stroke of its outline, the anchor, begin transform, the scale about *)
(* the anchor, (debug) alpha 0.5 / Multiply, the fill of the (sw, sh)      *)
(* footprint and alpha 1.0 / Normal, the text draw, end transform; the     *)
(* calls of a word all come before those of the next.                      *)
C22_WordsRenderedInOrder ==
    (PageCall /\ Begun("OCR") # {}) =>
        LET n == Len(call.words)
            len == Len(WordPattern)
            dbg == IF doc.debug THEN 2 ELSE 0
        IN  /\ LastOfWords - BeforeWords = n * len
            /\ Cardinality(DrawAt(pdf.ops)) = n
            /\ \A k \in 1..n :
                  LET base == BeforeWords + (k - 1) * len
                      word == call.words[k]
                      anchor == pdf.ops[base + dbg + 1]
                      scale == pdf.ops[base + dbg + 3]
                      draw == pdf.ops[base + len - 1]
                  IN  /\ \A j \in 1..len : pdf.ops[base + j].op = WordPattern[j]
                      /\ PageX(anchor) = Mul(R(word.Left), call.mx)
                      /\ PageY(anchor) = Mul(R(word.Top), call.my)
                      /\ <<scale.x, scale.y>> = <<anchor.x, anchor.y>>
                      /\ draw.txt = word.Text
                      /\ doc.debug =>
                            /\ pdf.ops[base + 2].id = "D"
                            /\ pdf.ops[base + 6].x = <<1, 2>>
                            /\ pdf.ops[base + 6].id = "Multiply"
                            /\ pdf.ops[base + 8].id = "F"
                            /\ pdf.ops[base + 8].h = draw.h
                            /\ pdf.ops[base + 9].x = <<1, 1>>
                            /\ pdf.ops[base + 9].id = "Normal"

C22_Witness ==
    /\ call.op = "AddPage" /\ doc.debug /\ ~ call.err
    /\ Len(call.words) = 2
    /\ call.words[1].Left # call.words[2].Left
    /\ Cardinality(DrawAt(pdf.ops)) = 2

-----------------------------------------------------------------------------
(* debug mode and the searchable text: claim C23 *)

(* the text draws of a page, in order: the text, the anchor, the           *)
(* transformation, the cell size, and the alpha and blend mode in force    *)
TextDraws(ops) ==
    [k \in 1..Cardinality(DrawAt(ops)) |->
        LET draw == ops[DrawOf(ops, k)]
        IN  [txt |-> draw.txt, x |-> draw.x, y |-> draw.y, ctm |-> draw.ctm,
             w |-> draw.w, h |-> draw.h, alpha |-> draw.alpha, blend |-> draw.blend]]

(* the page AddPage makes of the same image and words with debug inverted *)
OtherMode ==
    AddPage([doc EXCEPT !.debug = ~ @], NewPdf, call.image, "scan", call.words,
            call.format).pdf

(* C23: debug mode does not change the searchable text: for the same       *)
(* image, words, scaling and orientation the sequence of text draws of the *)
(* page (text, anchor, scale, cell size, alpha and blend mode at the draw) *)
(* is the same with debug on and off.                                      *)
C23_DebugKeepsText ==
    call.op = "AddPage" => TextDraws(pdf.ops) = TextDraws(OtherMode.ops)

C23_Witness ==
    /\ call.op = "AddPage" /\ doc.debug /\ ~ call.err
    /\ Len(call.words) = 2
    /\ \E i \in 1..Len(pdf.ops) : pdf.ops[i].op = "SetAlpha" /\ pdf.ops[i].id = "Multiply"
    /\ Len(OtherMode.ops) < Len(pdf.ops)

-----------------------------------------------------------------------------
(* transform scoping: claim C24 *)

OpsAt(names) == {i \in 1..Len(pdf.ops) : pdf.ops[i].op \in names}

(* the transformation AddPage (not the direct implementation) wraps around *)
(* the words: the scale by (mx, my) about the origin                       *)
Around ==
    IF call.op = "AddPage"
    THEN [a |-> call.mx, d |-> call.my, e |-> R(0), f |-> R(0)]
    ELSE Identity

(* C24: on every path through AddPage, with and without an error, every    *)
(* TransformBegin is matched by a TransformEnd: no transform is open and   *)
(* the transformation is the identity when the image is drawn and when     *)
(* AddPage returns (hence when the next page starts), and the scale of a   *)
(* word applies neither to a later word nor to the image: every word is    *)
(* anchored under the page's pixel-to-page scale alone.                    *)
C24_TransformsScoped ==
    PageCall =>
        /\ pdf.saved = <<>> /\ pdf.ctm = Identity
        /\ Cardinality(OpsAt({"TransformBegin"})) = Cardinality(OpsAt({"TransformEnd"}))
        /\ \A i \in OpsAt({"TransformEnd"}) : pdf.ops[i].nest >= 1
        /\ \A i \in OpsAt({"Image", "AddPageFormat", "BeginLayer", "EndLayer"}) :
              pdf.ops[i].nest = 0 /\ pdf.ops[i].ctm = Identity
        /\ \A i \in OpsAt({"SetXY"}) :
              pdf.ops[i].layer = "OCR" =>
                  /\ pdf.ops[i].ctm = Around
                  /\ pdf.ops[i].nest = IF call.op = "AddPage" THEN 1 ELSE 0

C24_Witness ==
    /\ call.op = "AddPage" /\ ~ doc.debug /\ ~ call.err
    /\ Len(call.words) = 2
    /\ Cardinality(OpsAt({"TransformBegin"})) = 3
    /\ \E i \in OpsAt({"Image"}), j \in OpsAt({"TransformScale"}) :
          j < i /\ pdf.ops[j].nest = 2 /\ pdf.ops[j].w # R(100)

-----------------------------------------------------------------------------
(* image opacity: claim C25 *)

Opaque(o) == o.alpha = <<1, 1>> /\ o.blend = "Normal"

(* C25: with debug on the image is drawn with alpha 0.5 and the alpha is   *)
(* 1.0 / Normal again when the image layer returns, hence when the text    *)
(* layer that follows begins; with debug off the image is drawn with alpha *)
(* 1.0; when AddPage returns (and so when the next page starts) the        *)
(* document's alpha is 1.0 and its blend mode Normal.                      *)
C25_ImageOpacity ==
    PageCall =>
        /\ \A i \in OpsAt({"Image"}) :
              /\ pdf.ops[i].alpha = IF doc.debug THEN <<1, 2>> ELSE <<1, 1>>
              /\ pdf.ops[i].blend = "Normal"
        /\ \A i \in OpsAt({"BeginLayer", "AddPageFormat"}) : Opaque(pdf.ops[i])
        /\ Opaque(pdf)

C25_Witness ==
    /\ call.op = "AddPage" /\ doc.debug /\ ~ call.err
    /\ \E i \in OpsAt({"Image"}), j \in Begun("OCR") :
          i < j /\ pdf.ops[i].alpha = <<1, 2>> /\ Opaque(pdf.ops[j])

-----------------------------------------------------------------------------
(* image names: claim C26 *)

(* C26, as claimed: each page's image is registered under a name that is   *)
(* unique among the pages of the run, also when the same input path is     *)
(* given more than once: the pages added have as many registered names as  *)
(* there are pages, and no two of them were added under the same name.     *)
C26_ImageNamesUnique ==
    main.pc # "none" =>
        /\ Cardinality(pdf.images) = Len(AddedPages)
        /\ \A i, j \in 1..Len(AddedPages) : i # j => AddedPages[i] # AddedPages[j]

-----------------------------------------------------------------------------
(* words within the image footprint: claim C27 *)

(* the position of the anchor of the k-th word: the last SetXY before its  *)
(* text draw                                                               *)
AnchorOf(ops, k) ==
    LET at == {j \in 1..(DrawOf(ops, k) - 1) : ops[j].op = "SetXY"}
    IN  CHOOSE j \in at : \A l \in at : l <= j

InImage(word, image) ==
    /\ 0 <= word.Left /\ word.Left < word.Right /\ word.Right <= image.w
    /\ 0 <= word.Top /\ word.Top < word.Bottom /\ word.Bottom <= image.h
    /\ word.Width = word.Right - word.Left
    /\ word.Height = word.Bottom - word.Top

(* C27: a word whose pixel box lies within the image is placed at a        *)
(* page-space box that lies within the image footprint, which is drawn     *)
(* from (0, 0) to (pageW, pageH): 0 <= x, x + w <= pageW, 0 <= y and       *)
(* y + h <= pageH, for the anchor of the text and for the debug outline.   *)
C27_WordsWithinFootprint ==
    PageCall =>
        /\ \A i \in OpsAt({"Image"}) :
              /\ <<pdf.ops[i].x, pdf.ops[i].y>> = <<R(0), R(0)>>
              /\ <<pdf.ops[i].w, pdf.ops[i].h>> = <<call.res.w, call.res.h>>
        /\ \A k \in 1..Cardinality(DrawAt(pdf.ops)) :
              LET word == call.words[k]
                  anchor == pdf.ops[AnchorOf(pdf.ops, k)]
                  x == PageX(anchor)
                  y == PageY(anchor)
                  w == Mul(R(word.Width), call.mx)
                  h == Mul(R(word.Height), call.my)
              IN  InImage(word, call.image) =>
                      /\ Le(R(0), x) /\ Le(Add(x, w), call.res.w)
                      /\ Le(R(0), y) /\ Le(Add(y, h), call.res.h)
                      /\ doc.debug =>
                            LET o == OutlineOf(pdf.ops, DrawOf(pdf.ops, k))
                            IN  /\ Le(R(0), PageX(o))
                                /\ Le(Add(PageX(o), PageW(o)), call.res.w)
                                /\ Le(R(0), PageY(o))
                                /\ Le(Add(PageY(o), PageH(o)), call.res.h)

C27_Witness ==
    /\ call.op = "AddPage" /\ doc.debug /\ ~ call.err
    /\ call.image.w # call.image.h
    /\ \E k \in 1..Len(call.words) :
          /\ InImage(call.words[k], call.image)
          /\ call.words[k].Left > 0
          /\ call.words[k].Right = call.image.w
          /\ call.words[k].Bottom = call.image.h
          /\ Add(PageX(pdf.ops[AnchorOf(pdf.ops, k)]),
                 Mul(R(call.words[k].Width), call.mx)) = call.res.w

-----------------------------------------------------------------------------
(* the pixel buffer of a page: claim C28 *)

(* C28, as claimed: the pixel buffer of a page is never released while the *)
(* page is being processed: with the finalizer free to run once the Image  *)
(* NewImageFromFile returned is unreachable, no call of the page           *)
(* (SetImagePix, Words, Dimensions, Reader) is handed a buffer that has    *)
(* been destroyed.                                                         *)
C28_BufferOutlivesPage ==
    main.pc \in {"Dimensions", "ScaleDown", "Adjust", "SetImagePix", "Words",
                 "AddPage", "done", "crashed"} =>
        /\ env.stale = {}
        /\ main.pc \notin {"done", "crashed"} => env.pix[main.buf] = "live"

-----------------------------------------------------------------------------
(* layer scoping: claim C29 *)

(* C29, as claimed: on every path through AddPage, the path where          *)
(* Image.Reader returns an error included, each BeginLayer is followed by  *)
(* its EndLayer before the next BeginLayer and before AddPage returns: the *)
(* OCR and Scan layers are never nested and no layer is open at the end of *)
(* the page.                                                               *)
C29_LayersScoped ==
    PageCall =>
        /\ pdf.layer = ""
        /\ \A i \in OpsAt({"BeginLayer"}) : pdf.ops[i].layer = ""
        /\ Cardinality(OpsAt({"BeginLayer"})) = Cardinality(OpsAt({"EndLayer"}))

-----------------------------------------------------------------------------
(* the output file of an aborted run: claim C30 *)

(* the run exited because a step of a page failed *)
AbortedInPage == Exited /\ \E i \in EventsAt(PageEvents) : ~ Events[i].ok

(* C30, as claimed: a run that aborts while processing a page leaves no    *)
(* output file behind that it created: the output path does not hold a new *)
(* empty file.                                                             *)
C30_AbortLeavesNoNewFile ==
    (AbortedInPage /\ ~ env.existed) => env.out = "absent"

(* C30, amended: a run that aborts while processing a page leaves the      *)
(* output file it opened (created, or truncated under --force) behind,     *)
(* empty: nothing is written to it before the final flush, which the run   *)
(* does not reach, and it is not removed, so that a rerun without --force  *)
(* finds that the file exists.                                             *)
C30_AbortLeavesEmptyFile ==
    AbortedInPage =>
        /\ env.out = "empty"
        /\ EventsAt({"OutputAndClose"}) = {}
        /\ Events[1].ev = "open" /\ Events[1].ok
        /\ OpenFile(env.out, OpenFlags(FALSE)).exist

C30_Witness ==
    /\ AbortedInPage /\ main.exit = 1
    /\ ~ env.existed
    /\ env.out = "empty"
    /\ Len(AddedPages) = 1

=============================================================================
